---------------------------- MODULE Spec2Model ----------------------------
(***************************************************************************)
(* A model of the resource_packager crate: the index codec                 *)
(* (index_serialization.rs) and the archive writer / reader                *)
(* (resource_library.rs).                                                  *)
(*                                                                         *)
(* Bytes are the naturals 0..255, byte strings are sequences of bytes and  *)
(* a Rust String / &str is the sequence of its UTF-8 bytes.  A u64 is kept *)
(* as four 16-bit limbs, most significant first, so that u64::MAX is       *)
(* representable; to_be_bytes / from_be_bytes convert between limbs and    *)
(* the eight bytes of the wire format.  usize is taken to be 64 bits wide. *)
(***************************************************************************)
EXTENDS Integers, Sequences, FiniteSets, TLC

-----------------------------------------------------------------------------
(* Bounds of the model.                                                    *)

\* longest sequence of triples handed to the codec in SpecCodec
MaxSeqLen == 2

\* most bytes an environment step may cut off the end of the archive file
MaxCut == 2

\* longest ByteStream SpecStream starts from
MaxStreamLen == 2

-----------------------------------------------------------------------------
(* u64 arithmetic on limbs.                                                *)

Limb == 256 * 256

U64Of(n) == <<0, 0, n \div Limb, n % Limb>>

U64_MAX == <<Limb - 1, Limb - 1, Limb - 1, Limb - 1>>

\* faulty variant: the running total is never advanced
U64AddKeep(a, b) == a

\* wrapping addition (release build; the sums of the model never wrap)
U64Add(a, b) ==
    LET s4 == a[4] + b[4]
        s3 == a[3] + b[3] + (s4 \div Limb)
        s2 == a[2] + b[2] + (s3 \div Limb)
        s1 == a[1] + b[1] + (s2 \div Limb)
    IN  <<s1 % Limb, s2 % Limb, s3 % Limb, s4 % Limb>>

\* v as a natural, for the values that fit the checker's integers
U64Fits(v) == v[1] = 0 /\ v[2] = 0 /\ v[3] < 128

U64ToNat(v) == v[3] * Limb + v[4]

\* n < v, for a small natural n  (`buffer.len() < len as usize`)
NatLtU64(n, v) == IF U64Fits(v) THEN n < U64ToNat(v) ELSE TRUE

\* an i64 is kept as the limbs of its two's complement bit pattern, so that
\* `as usize` leaves the limbs as they are; k is a small integer
I64Of(k) == IF k >= 0 THEN U64Of(k) ELSE <<Limb - 1, Limb - 1, Limb - 1, Limb + k>>

I64_MIN == <<Limb \div 2, 0, 0, 0>>

I64_MAX == <<(Limb \div 2) - 1, Limb - 1, Limb - 1, Limb - 1>>

\* the sign bit of an i64
I64Negative(v) == v[1] >= Limb \div 2

to_be_bytes(v) ==
    << v[1] \div 256, v[1] % 256, v[2] \div 256, v[2] % 256,
       v[3] \div 256, v[3] % 256, v[4] \div 256, v[4] % 256 >>

\* faulty variant: the eight bytes taken least significant first
from_le_bytes(b) ==
    << b[8] * 256 + b[7], b[6] * 256 + b[5],
       b[4] * 256 + b[3], b[2] * 256 + b[1] >>

from_be_bytes(b) ==
    << b[1] * 256 + b[2], b[3] * 256 + b[4],
       b[5] * 256 + b[6], b[7] * 256 + b[8] >>

\* b[from..], the rest of a slice
Drop(b, n) == SubSeq(b, n + 1, Len(b))

Take(b, n) == SubSeq(b, 1, n)

Zeros(n) == [i \in 1..n |-> 0]

-----------------------------------------------------------------------------
(* std::str::from_utf8: whether a byte string is well-formed UTF-8.        *)

IsCont(x) == x >= 128 /\ x <= 191

RECURSIVE Utf8Valid(_)
Utf8Valid(b) ==
    IF Len(b) = 0 THEN TRUE
    ELSE LET c == b[1]
             n == Len(b)
         IN  IF c < 128 THEN Utf8Valid(Drop(b, 1))
             ELSE IF c >= 194 /\ c <= 223
               THEN n >= 2 /\ IsCont(b[2]) /\ Utf8Valid(Drop(b, 2))
             ELSE IF c >= 224 /\ c <= 239
               THEN /\ n >= 3
                    /\ IsCont(b[2]) /\ IsCont(b[3])
                    /\ (c = 224 => b[2] >= 160)
                    /\ (c = 237 => b[2] <= 159)
                    /\ Utf8Valid(Drop(b, 3))
             ELSE IF c >= 240 /\ c <= 244
               THEN /\ n >= 4
                    /\ IsCont(b[2]) /\ IsCont(b[3]) /\ IsCont(b[4])
                    /\ (c = 240 => b[2] >= 144)
                    /\ (c = 244 => b[2] <= 143)
                    /\ Utf8Valid(Drop(b, 4))
             ELSE FALSE

-----------------------------------------------------------------------------
(* IndexSerializer: the encoding half of the index codec.                  *)

serialize_u64(buffer, v) == buffer \o to_be_bytes(v)

serialize_str(buffer, s) == serialize_u64(buffer, U64Of(Len(s))) \o s

serialize_seq(buffer, len) == serialize_u64(buffer, U64Of(len))

\* SerializeTuple for (String, u64, u64): the three fields, no prefix
serialize_tuple(buffer, t) ==
    serialize_u64(serialize_u64(serialize_str(buffer, t[1]), t[2]), t[3])

RECURSIVE serialize_elements(_, _, _)
serialize_elements(buffer, index, i) ==
    IF i > Len(index) THEN buffer
    ELSE serialize_elements(serialize_tuple(buffer, index[i]), index, i + 1)

\* index.serialize(&mut serializer); serializer.take()
SerializeIndex(index) ==
    serialize_elements(serialize_seq(<<>>, Len(index)), index, 1)

-----------------------------------------------------------------------------
(* IndexDeserializer: the decoding half.  Every step returns a record      *)
(* [err, value, rest]: err = "" on success, rest is the unread input.      *)

DeOk(v, rest) == [err |-> "", value |-> v, rest |-> rest]

DeErr(e) == [err |-> e, value |-> <<>>, rest |-> <<>>]

next_u64(buffer) ==
    IF Len(buffer) < 8 THEN DeErr("EOF")
    ELSE DeOk(from_be_bytes(Take(buffer, 8)), Drop(buffer, 8))

\* faulty variant: the bytes are taken for text without being validated
next_str_unchecked(buffer) ==
    LET l == next_u64(buffer)
    IN  IF l.err # "" THEN l
        ELSE IF NatLtU64(Len(l.rest), l.value) THEN DeErr("EOF")
        ELSE LET n == U64ToNat(l.value)
             IN  DeOk(Take(l.rest, n), Drop(l.rest, n))

next_str(buffer) ==
    LET l == next_u64(buffer)
    IN  IF l.err # "" THEN l
        ELSE IF NatLtU64(Len(l.rest), l.value) THEN DeErr("EOF")
        ELSE LET n == U64ToNat(l.value)
                 bytes == Take(l.rest, n)
             IN  IF ~Utf8Valid(bytes) THEN DeErr("UTF-8 Error")
                 ELSE DeOk(bytes, Drop(l.rest, n))

\* deserialize_tuple(3, visitor): a String and two u64, in order
deserialize_tuple(buffer) ==
    LET s == next_str(buffer)
    IN  IF s.err # "" THEN s
        ELSE LET o == next_u64(s.rest)
             IN  IF o.err # "" THEN o
                 ELSE LET l == next_u64(o.rest)
                      IN  IF l.err # "" THEN l
                          ELSE DeOk(<<s.value, o.value, l.value>>, l.rest)

\* SeqAccess::next_element_seed driven by the Vec visitor: elements are
\* decoded until pos reaches len
RECURSIVE next_element_seed(_, _, _, _)
next_element_seed(buffer, len, pos, acc) ==
    IF len = U64Of(pos) THEN DeOk(acc, buffer)
    ELSE LET e == deserialize_tuple(buffer)
         IN  IF e.err # "" THEN e
             ELSE next_element_seed(e.rest, len, pos + 1, Append(acc, e.value))

deserialize_seq(buffer) ==
    LET len == next_u64(buffer)
    IN  IF len.err # "" THEN len
        ELSE next_element_seed(len.rest, len.value, 0, <<>>)

\* bytes left unread are not looked at
index_from_bytes(bytes) == deserialize_seq(bytes)

-----------------------------------------------------------------------------
(* Paths.  String's Ord compares the UTF-8 bytes lexicographically.        *)

\* the characters of "\\?%*:|\"<>,;=", all of them ASCII
FORBIDDEN_CHARACTERS == <<92, 63, 37, 42, 58, 124, 34, 60, 62, 44, 59, 61>>

\* the fingerprint that starts every archive file
HEADER_BYTES == <<103, 215, 112, 58, 84, 61, 219, 245, 23, 149>>

Range(s) == {s[i] : i \in DOMAIN s}

\* TRUE when no character of str is forbidden (Ok(str)), FALSE on bail!
verify_str(str) ==
    \A i \in DOMAIN str :
        \A j \in DOMAIN FORBIDDEN_CHARACTERS : str[i] # FORBIDDEN_CHARACTERS[j]

\* faulty variant: only the first character is looked at
verify_string_first(string) ==
    Len(string) = 0 \/
        \A j \in DOMAIN FORBIDDEN_CHARACTERS : string[1] # FORBIDDEN_CHARACTERS[j]

verify_string(string) ==
    \A i \in DOMAIN string :
        \A j \in DOMAIN FORBIDDEN_CHARACTERS : string[i] # FORBIDDEN_CHARACTERS[j]

\* a.cmp(b) on str: "Less", "Equal" or "Greater"
RECURSIVE StrCmp(_, _)
StrCmp(a, b) ==
    IF Len(a) = 0 /\ Len(b) = 0 THEN "Equal"
    ELSE IF Len(a) = 0 THEN "Less"
    ELSE IF Len(b) = 0 THEN "Greater"
    ELSE IF a[1] < b[1] THEN "Less"
    ELSE IF a[1] > b[1] THEN "Greater"
    ELSE StrCmp(Drop(a, 1), Drop(b, 1))

-----------------------------------------------------------------------------
(* ByteStream, the in-memory Resource: [bytes, position].                  *)

ByteStreamFrom(value) == [bytes |-> value, position |-> 0]

Min(a, b) == IF a < b THEN a ELSE b

\* Read::read into a buffer of buf_len bytes: the bytes copied and the
\* stream afterwards
ByteStreamRead(s, buf_len) ==
    LET bytes_read == Min(buf_len, Len(s.bytes) - s.position)
    IN  [data   |-> SubSeq(s.bytes, s.position + 1, s.position + bytes_read),
         stream |-> [s EXCEPT !.position = s.position + bytes_read]]

\* Write::write of buf: the bytes that fit between the cursor and the end
\* are overwritten, the count written and the stream afterwards
ByteStreamWrite(s, buf) ==
    LET bytes_written == Min(Len(buf), Len(s.bytes) - s.position)
    IN  [n      |-> bytes_written,
         stream |-> [bytes    |-> [i \in DOMAIN s.bytes |->
                                     IF i > s.position /\ i <= s.position + bytes_written
                                     THEN buf[i - s.position]
                                     ELSE s.bytes[i]],
                     position |-> s.position + bytes_written]]

\* the position a seek computes before it is clamped, as the limbs of a usize
SeekTarget(s, pos) ==
    IF pos.from = "Start" THEN pos.offset
    ELSE IF pos.from = "End" THEN U64Add(U64Of(Len(s.bytes)), pos.offset)
    ELSE U64Add(U64Of(s.position), pos.offset)

\* `x as i64 + offset` leaves the range of i64: x is never negative, so this
\* happens when offset is not negative and the sum's sign bit is set
SeekOverflows(s, pos) ==
    /\ pos.from # "Start"
    /\ ~I64Negative(pos.offset)
    /\ I64Negative(SeekTarget(s, pos))

\* faulty variant: the computed position is kept as it is, never clamped
ByteStreamSeekUnclamped(s, pos, build) ==
    [kind   |-> "Ok",
     stream |-> [s EXCEPT !.position = SeekTarget(s, pos)[4]]]

\* Seek::seek for every SeekFrom: [kind, stream].  A sum that overflows
\* panics in a build with overflow checks ("debug") and wraps in one without
\* ("release"); a position past the end, which a negative sum cast to usize
\* is too, becomes the end
ByteStreamSeek(s, pos, build) ==
    IF build = "debug" /\ SeekOverflows(s, pos)
    THEN [kind |-> "Panic", stream |-> s]
    ELSE LET target == SeekTarget(s, pos)
         IN  [kind   |-> "Ok",
              stream |-> [s EXCEPT !.position =
                            IF NatLtU64(Len(s.bytes), target) THEN Len(s.bytes)
                            ELSE U64ToNat(target)]]

\* Seek::seek(SeekFrom::Start(offset)), clamped to the end
ByteStreamSeekStart(s, offset) ==
    [s EXCEPT !.position = IF offset > Len(s.bytes) THEN Len(s.bytes) ELSE offset]

\* Seek::rewind is seek(SeekFrom::Start(0))
Rewind(s) == ByteStreamSeekStart(s, 0)

\* Read::read_to_end: read in chunks until a read returns no byte
RECURSIVE ReadToEnd(_, _)
ReadToEnd(s, acc) ==
    LET r == ByteStreamRead(s, 32)
    IN  IF Len(r.data) = 0 THEN [data |-> acc, stream |-> r.stream]
        ELSE ReadToEnd(r.stream, acc \o r.data)

\* faulty variant: the rewind is left out
ReadWholeNoRewind(s) == ReadToEnd(s, <<>>)

\* resource.rewind()?; resource.read_to_end(&mut bytes)?
ReadWhole(s) == ReadToEnd(Rewind(s), <<>>)

-----------------------------------------------------------------------------
(* The stage: BTreeMap<String, Box<dyn Resource>>, kept as the sequence of *)
(* its entries [path, res] in ascending path order.                        *)

\* position of path among the entries, 0 when absent
MapFind(m, path) ==
    IF \E i \in DOMAIN m : m[i].path = path
    THEN CHOOSE i \in DOMAIN m : m[i].path = path
    ELSE 0

\* number of keys that order before path
MapRank(m, path) == Cardinality({i \in DOMAIN m : StrCmp(m[i].path, path) = "Less"})

\* faulty variant: a new key goes to the end, as in a Vec of pairs
MapInsertLast(m, path, res) ==
    LET i == MapFind(m, path)
    IN  IF i # 0 THEN [m EXCEPT ![i].res = res]
        ELSE Append(m, [path |-> path, res |-> res])

\* BTreeMap::insert: replaces the value of an existing key
MapInsert(m, path, res) ==
    LET i == MapFind(m, path)
        k == MapRank(m, path)
    IN  IF i # 0 THEN [m EXCEPT ![i].res = res]
        ELSE Take(m, k) \o <<[path |-> path, res |-> res]>> \o Drop(m, k)

\* faulty variant: the smallest key is removed, whichever key was asked for
MapRemoveFirst(m, i) == Drop(m, 1)

\* BTreeMap::remove of a present key
MapRemove(m, i) == Take(m, i - 1) \o Drop(m, i)

\* map.keys()
MapKeys(m) == [i \in DOMAIN m |-> m[i].path]

-----------------------------------------------------------------------------
(* The compression codec (crate lzma), by its contract: compress never     *)
(* fails, its output depends on the level and is never empty, and          *)
(* decompress inverts it and rejects what compress cannot have produced.   *)
(* A frame is <<level, length>> \o payload \o <<check>>.                   *)

Fastest == 1
Fast == 3
Normal == 5
Maximum == 7
Ultra == 9

CompressionLevel == {Fastest, Fast, Normal, Maximum, Ultra}

RECURSIVE SumBytes(_)
SumBytes(b) == IF Len(b) = 0 THEN 0 ELSE b[1] + SumBytes(Drop(b, 1))

Check(data) == 1 + (SumBytes(data) % 255)

compress(data, level) ==
    <<level, Len(data)>> \o [i \in DOMAIN data |-> (data[i] + level) % 256]
        \o <<Check(data)>>

decompress(buf) ==
    IF Len(buf) < 3 \/ buf[1] \notin CompressionLevel \/ Len(buf) # buf[2] + 3
    THEN [err |-> "Codec", data |-> <<>>]
    ELSE LET data == [i \in 1..buf[2] |-> (buf[i + 2] + 256 - buf[1]) % 256]
         IN  IF buf[Len(buf)] # Check(data) THEN [err |-> "Codec", data |-> <<>>]
             ELSE [err |-> "", data |-> data]

-----------------------------------------------------------------------------
(* std::fs::File: a handle is [bytes, pos], bytes being the file on disk.  *)

\* file.write(buf) on a regular file: all of buf goes in at the cursor
FileWrite(h, buf) ==
    LET end == h.pos + Len(buf)
        n   == IF end > Len(h.bytes) THEN end ELSE Len(h.bytes)
    IN  [bytes |-> IF h.pos = Len(h.bytes) THEN h.bytes \o buf
                   ELSE [i \in 1..n |->
                           IF i > h.pos /\ i <= end THEN buf[i - h.pos]
                           ELSE IF i <= Len(h.bytes) THEN h.bytes[i]
                           ELSE 0],
         pos   |-> end]

\* faulty variant: the seek is left out and the cursor stays where it was
FileSeekIgnored(h, pos) == h

FileSeek(h, pos) == [h EXCEPT !.pos = pos]

\* file.read(&mut buf) into a zeroed buffer of n bytes: one read call, which
\* stops at the end of the file; the return value is dropped by every caller
FileRead(h, n) ==
    LET avail == IF h.pos >= Len(h.bytes) THEN 0 ELSE Len(h.bytes) - h.pos
        got   == Min(n, avail)
    IN  [buf |-> SubSeq(h.bytes, h.pos + 1, h.pos + got) \o Zeros(n - got),
         pos |-> h.pos + got]

-----------------------------------------------------------------------------
(* ResourceLibraryWriter::write_to_file.                                   *)

\* faulty variant: the placeholder index built back to front
IndexTemplateReversed(m) ==
    [i \in DOMAIN m |-> <<m[Len(m) + 1 - i].path, U64_MAX, U64_MAX>>]

\* the placeholder index: one (filename, u64::MAX, u64::MAX) per entry
IndexTemplate(m) == [i \in DOMAIN m |-> <<m[i].path, U64_MAX, U64_MAX>>]

\* the loop over self.map.iter_mut().enumerate(), from entry i on
RECURSIVE WriteEntries(_, _, _, _, _, _)
WriteEntries(h, m, index, data_len, level, i) ==
    IF i > Len(m) THEN [h |-> h, m |-> m, index |-> index, data_len |-> data_len]
    ELSE LET r      == ReadWhole(m[i].res)
             f_data == compress(r.data, level)
             idx    == [index EXCEPT ![i] =
                          <<index[i][1], data_len, U64Of(Len(f_data))>>]
         IN  WriteEntries(FileWrite(h, f_data),
                          [m EXCEPT ![i].res = r.stream],
                          idx,
                          U64Add(data_len, U64Of(Len(f_data))),
                          level, i + 1)

\* the whole flush onto the handle h: the handle and the stage afterwards
write_to_file(m, h, level) ==
    LET index       == IndexTemplate(m)
        index_data  == SerializeIndex(index)
        h1          == FileWrite(h, HEADER_BYTES)
        h2          == FileWrite(h1, to_be_bytes(U64Of(Len(index_data))))
        data_len_offset == h2.pos
        h3          == FileWrite(h2, to_be_bytes(U64Of(0)))
        h4          == FileWrite(h3, index_data)
        w           == WriteEntries(h4, m, index, U64Of(0), level, 1)
        h5          == FileSeek(w.h, data_len_offset)
        h6          == FileWrite(h5, to_be_bytes(w.data_len))
        h7          == FileWrite(h6, SerializeIndex(w.index))
    IN  [h |-> h7, m |-> w.m, index |-> w.index]

-----------------------------------------------------------------------------
(* ResourceLibraryReader.                                                  *)

\* faulty variant: the last byte of the fingerprint is not compared
HeaderMatchesButLast(first_10) == Take(first_10, 9) = Take(HEADER_BYTES, 9)

HeaderMatches(first_10) == first_10 = HEADER_BYTES

\* ResourceLibraryReader::new on a file holding `bytes`:
\* [err, index, data_pointer]; err = "" when a Reader is returned
ReaderNew(bytes) ==
    LET h0 == [bytes |-> bytes, pos |-> 0]
        r1 == FileRead(h0, 10)
        r2 == FileRead(FileSeek(h0, r1.pos), 8)
        r3 == FileRead(FileSeek(h0, r2.pos), 8)
        index_size == from_be_bytes(r2.buf)
        fail(e) == [err |-> e, index |-> <<>>, data_pointer |-> 0]
    IN  IF ~HeaderMatches(r1.buf) THEN fail("HeaderMismatch")
        ELSE IF ~U64Fits(index_size) THEN fail("Alloc")
        ELSE LET r4 == FileRead(FileSeek(h0, r3.pos), U64ToNat(index_size))
                 d  == index_from_bytes(r4.buf)
             IN  IF d.err # "" THEN fail(d.err)
                 ELSE [err |-> "", index |-> d.value, data_pointer |-> r4.pos]

\* faulty variant: the comparator with its operands swapped
SearchCmpSwapped(file_path, path) == StrCmp(path, file_path)

\* the comparator handed to binary_search_by
SearchCmp(file_path, path) == StrCmp(file_path, path)

\* <[T]>::binary_search_by: the position found, 0 for Err(_)
RECURSIVE BinarySearch(_, _, _, _)
BinarySearch(index, path, left, right) ==
    IF left >= right THEN 0
    ELSE LET mid == left + ((right - left) \div 2)
             cmp == SearchCmp(index[mid + 1][1], path)
         IN  IF cmp = "Less" THEN BinarySearch(index, path, mid + 1, right)
             ELSE IF cmp = "Greater" THEN BinarySearch(index, path, left, mid)
             ELSE mid + 1

\* faulty variant: the seek leaves out data_pointer
ReaderReadFileNoBase(rd, bytes, path) ==
    LET i == BinarySearch(rd.index, path, 0, Len(rd.index))
    IN  IF i = 0 THEN [kind |-> "NotFound", data |-> <<>>, pos |-> rd.pos]
        ELSE LET e == rd.index[i]
                 r == FileRead([bytes |-> bytes, pos |-> U64ToNat(e[2])],
                               U64ToNat(e[3]))
                 d == decompress(r.buf)
             IN  IF d.err # ""
                 THEN [kind |-> d.err, data |-> <<>>, pos |-> r.pos]
                 ELSE [kind |-> "Ok", data |-> d.data, pos |-> r.pos]

\* ResourceLibraryReader::read_file: [kind, data, pos], pos the cursor of the
\* Reader's file handle afterwards
ReaderReadFile(rd, bytes, path) ==
    LET i == BinarySearch(rd.index, path, 0, Len(rd.index))
    IN  IF i = 0 THEN [kind |-> "NotFound", data |-> <<>>, pos |-> rd.pos]
        ELSE LET e == rd.index[i]
             IN  IF ~U64Fits(e[2]) THEN [kind |-> "Io", data |-> <<>>, pos |-> rd.pos]
                 ELSE LET target == rd.data_pointer + U64ToNat(e[2])
                      IN  IF ~U64Fits(e[3])
                          THEN [kind |-> "Alloc", data |-> <<>>, pos |-> target]
                          ELSE LET r == FileRead([bytes |-> bytes, pos |-> target],
                                                 U64ToNat(e[3]))
                                   d == decompress(r.buf)
                               IN  IF d.err # ""
                                   THEN [kind |-> d.err, data |-> <<>>, pos |-> r.pos]
                                   ELSE [kind |-> "Ok", data |-> d.data, pos |-> r.pos]

ReaderGetAllFiles(rd) == [i \in DOMAIN rd.index |-> rd.index[i][1]]

-----------------------------------------------------------------------------
(* The inputs the checker draws from.                                      *)

\* "a", "ab", "b"
ValidPaths == { <<97>>, <<97, 98>>, <<98>> }

\* "a?"
InvalidPaths == { <<97, 63>> }

Paths == ValidPaths \cup InvalidPaths

\* staged contents: empty, one byte, two bytes
Contents == { <<>>, <<65>>, <<66, 250>> }

\* "", "a", "e-acute"
CodecStrings == { <<>>, <<97>>, <<195, 169>> }

CodecNumbers == { U64Of(0), U64Of(258), U64_MAX }

CodecTriples == CodecStrings \X CodecNumbers \X CodecNumbers

CodecInputs == UNION { [1..n -> CodecTriples] : n \in 0..MaxSeqLen }

-----------------------------------------------------------------------------
(* State.                                                                  *)

VARIABLES
    map,      \* ResourceLibraryWriter.map
    file,     \* the bytes of the archive file on disk
    reader,   \* the ResourceLibraryReader, if one is open
    res,      \* what the last call returned: [op, path, kind, data]
    archive,  \* history: what the last flush was given
    staged,   \* history: the paths staged and not taken since
    codec,    \* the index codec driven on its own (SpecCodec)
    stream    \* a ByteStream driven on its own (SpecStream)

vars == <<map, file, reader, res, archive, staged, codec, stream>>

NoReader == [open |-> FALSE, index |-> <<>>, data_pointer |-> 0, pos |-> 0]

Result(op, path, kind, data) ==
    [op |-> op, path |-> path, kind |-> kind, data |-> data]

Flushed == archive.level # 0

Init ==
    /\ map = <<>>
    /\ file = <<>>
    /\ reader = NoReader
    /\ res = Result("new_writer", <<>>, "Ok", <<>>)
    /\ archive = [level |-> 0, entries |-> <<>>, listing |-> <<>>, intact |-> FALSE]
    /\ staged = {}
    /\ codec = [pc |-> "idle", input |-> <<>>, bytes |-> <<>>,
                damage |-> "none", out |-> DeOk(<<>>, <<>>)]
    /\ stream = ByteStreamFrom(<<>>)

-----------------------------------------------------------------------------
(* ResourceLibraryWriter's operations.                                     *)

\* The stage is filled and emptied before the first flush.  A flush reads
\* nothing but the stage, so a flush after a later change writes what a flush
\* of a stage built that way from the start writes.
MayEdit == ~Flushed

WriteStream(path, data) ==
    /\ IF ~verify_string(path)
       THEN /\ res' = Result("write_stream", path, "InvalidPath", <<>>)
            /\ UNCHANGED <<map, staged>>
       ELSE /\ MayEdit
            /\ map' = MapInsert(map, path, ByteStreamFrom(data))
            /\ staged' = staged \cup {path}
            /\ res' = Result("write_stream", path, "Ok", <<>>)
    /\ UNCHANGED <<file, reader, archive, codec, stream>>

\* read_data on the stage m: [kind, data, m], m the stage afterwards
read_data(m, path) ==
    IF ~verify_str(path) THEN [kind |-> "InvalidPath", data |-> <<>>, m |-> m]
    ELSE LET i == MapFind(m, path)
         IN  IF i = 0 THEN [kind |-> "NotFound", data |-> <<>>, m |-> m]
             ELSE LET r == ReadWhole(m[i].res)
                  IN  [kind |-> "Ok", data |-> r.data,
                       m |-> [m EXCEPT ![i].res = r.stream]]

ReadData(path) ==
    /\ LET r == read_data(map, path)
       IN  /\ map' = r.m
           /\ res' = Result("read_data", path, r.kind, r.data)
    /\ UNCHANGED <<file, reader, archive, staged, codec, stream>>

TakeData(path) ==
    /\ LET i == MapFind(map, path)
       IN  IF i = 0
           THEN /\ res' = Result("take_data", path, "NotFound", <<>>)
                /\ UNCHANGED <<map, staged>>
           ELSE /\ MayEdit
                /\ map' = MapRemove(map, i)
                /\ staged' = staged \ {path}
                /\ res' = Result("take_data", path, "Ok", ReadWhole(map[i].res).data)
    /\ UNCHANGED <<file, reader, archive, codec, stream>>

\* the caller opens the destination with truncate(true), as the tests do, and
\* no Reader holds the file while it is rewritten; a damaged file is read,
\* not written again
WriteToFile(level) ==
    /\ ~reader.open
    /\ Flushed => archive.intact
    /\ LET w == write_to_file(map, [bytes |-> <<>>, pos |-> 0], level)
       IN  /\ file' = w.h.bytes
           /\ map' = w.m
           /\ archive' = [level   |-> level,
                          entries |-> [i \in DOMAIN map |->
                                         <<map[i].path, map[i].res.bytes>>],
                          listing |-> MapKeys(map),
                          intact  |-> TRUE]
    /\ res' = Result("write_to_file", <<>>, "Ok", <<>>)
    /\ UNCHANGED <<reader, staged, codec, stream>>

WriterGetAllFiles ==
    /\ res' = Result("writer.get_all_files", <<>>, "Ok", MapKeys(map))
    /\ UNCHANGED <<map, file, reader, archive, staged, codec, stream>>

-----------------------------------------------------------------------------
(* ResourceLibraryReader's operations.                                     *)

OpenReader ==
    /\ Flushed
    /\ ~reader.open
    /\ LET r == ReaderNew(file)
       IN  /\ reader' = IF r.err = ""
                        THEN [open |-> TRUE, index |-> r.index,
                              data_pointer |-> r.data_pointer,
                              pos |-> r.data_pointer]
                        ELSE NoReader
           /\ res' = Result("new", <<>>, IF r.err = "" THEN "Ok" ELSE r.err, file)
    /\ UNCHANGED <<map, file, archive, staged, codec, stream>>

ReadFile(path) ==
    /\ reader.open
    /\ LET r == ReaderReadFile(reader, file, path)
       IN  /\ reader' = [reader EXCEPT !.pos = r.pos]
           /\ res' = Result("read_file", path, r.kind, r.data)
    /\ UNCHANGED <<map, file, archive, staged, codec, stream>>

ReaderGetAll ==
    /\ reader.open
    /\ res' = Result("reader.get_all_files", <<>>, "Ok", ReaderGetAllFiles(reader))
    /\ UNCHANGED <<map, file, reader, archive, staged, codec, stream>>

\* the Reader is dropped, which closes its file
DropReader ==
    /\ reader.open
    /\ reader' = NoReader
    /\ res' = Result("drop", <<>>, "Ok", <<>>)
    /\ UNCHANGED <<map, file, archive, staged, codec, stream>>

-----------------------------------------------------------------------------
(* The environment damages the archive file, once per flush and while no   *)
(* Reader holds it.                                                        *)

\* the ends of the fingerprint, the header, the index block and the file
Boundaries(bytes) ==
    IF Len(bytes) < 26 THEN {}
    ELSE LET l_idx == from_be_bytes(SubSeq(bytes, 11, 18))
         IN  {10, 26, 26 + U64ToNat(l_idx), Len(bytes)}

\* the file is cut to k bytes, at most MaxCut bytes short of a boundary
Truncate(k) ==
    /\ archive.intact
    /\ ~reader.open
    /\ k >= 0 /\ k < Len(file)
    /\ file' = Take(file, k)
    /\ archive' = [archive EXCEPT !.intact = FALSE]
    /\ UNCHANGED <<map, reader, res, staged, codec, stream>>

\* one byte of the fingerprint is altered
Corrupt(i) ==
    /\ archive.intact
    /\ ~reader.open
    /\ file' = [file EXCEPT ![i] = (file[i] + 1) % 256]
    /\ archive' = [archive EXCEPT !.intact = FALSE]
    /\ UNCHANGED <<map, reader, res, staged, codec, stream>>

Next ==
    \/ \E path \in Paths, data \in Contents : WriteStream(path, data)
    \/ \E path \in Paths : ReadData(path)
    \/ \E path \in Paths : TakeData(path)
    \/ \E level \in CompressionLevel : WriteToFile(level)
    \/ WriterGetAllFiles
    \/ OpenReader
    \/ \E path \in Paths : ReadFile(path)
    \/ ReaderGetAll
    \/ DropReader
    \/ \E b \in Boundaries(file), c \in 0..MaxCut : Truncate(b - c)
    \/ \E i \in DOMAIN HEADER_BYTES : Corrupt(i)

Spec == Init /\ [][Next]_vars

-----------------------------------------------------------------------------
(* The index codec on its own: an index is drawn, encoded and decoded.     *)

InitCodec ==
    /\ map = <<>>
    /\ file = <<>>
    /\ reader = NoReader
    /\ res = Result("new_writer", <<>>, "Ok", <<>>)
    /\ archive = [level |-> 0, entries |-> <<>>, listing |-> <<>>, intact |-> FALSE]
    /\ staged = {}
    /\ \E input \in CodecInputs :
         codec = [pc |-> "input", input |-> input, bytes |-> <<>>,
                  damage |-> "none", out |-> DeOk(<<>>, <<>>)]
    /\ stream = ByteStreamFrom(<<>>)

CodecSerialize ==
    /\ codec.pc = "input"
    /\ codec' = [codec EXCEPT !.pc = "encoded",
                              !.bytes = SerializeIndex(codec.input)]
    /\ UNCHANGED <<map, file, reader, res, archive, staged, stream>>

\* where element i of index starts in SerializeIndex(index): after the count
\* and the elements before it, each a length prefix, a string and two u64
RECURSIVE ElementStart(_, _)
ElementStart(index, i) ==
    IF i = 1 THEN 8
    ELSE ElementStart(index, i - 1) + 8 + Len(index[i - 1][1]) + 16

\* the ends of the count and of the four fields of the last element
CodecBoundaries(index) ==
    IF Len(index) = 0 THEN {8}
    ELSE LET at == ElementStart(index, Len(index))
             n  == Len(index[Len(index)][1])
         IN  {8, at + 8, at + 8 + n, at + 16 + n, at + 24 + n}

\* the encoding is cut to k bytes
CodecTruncate(k) ==
    /\ codec.pc = "encoded"
    /\ k >= 0 /\ k < Len(codec.bytes)
    /\ codec' = [codec EXCEPT !.pc = "damaged", !.damage = "cut",
                              !.bytes = Take(codec.bytes, k)]
    /\ UNCHANGED <<map, file, reader, res, archive, staged, stream>>

\* the element count announces one element more than the bytes hold
CodecInflateCount ==
    /\ codec.pc = "encoded"
    /\ codec' = [codec EXCEPT !.pc = "damaged", !.damage = "count",
                              !.bytes[8] = codec.bytes[8] + 1]
    /\ UNCHANGED <<map, file, reader, res, archive, staged, stream>>

\* byte b (1 the most significant, 8 the least) of the length prefix of the
\* string of element i becomes v: the string announces more bytes than remain
CodecInflateStrLen(i, b, v) ==
    /\ codec.pc = "encoded"
    /\ i \in DOMAIN codec.input
    /\ codec' = [codec EXCEPT !.pc = "damaged", !.damage = "strlen",
                              !.bytes[ElementStart(codec.input, i) + b] = v]
    /\ UNCHANGED <<map, file, reader, res, archive, staged, stream>>

\* byte j of the string of element i becomes 0xFF, which no UTF-8 text holds
CodecBadUtf8(i, j) ==
    /\ codec.pc = "encoded"
    /\ i \in DOMAIN codec.input
    /\ j \in DOMAIN codec.input[i][1]
    /\ codec' = [codec EXCEPT !.pc = "damaged", !.damage = "utf8",
                              !.bytes[ElementStart(codec.input, i) + 8 + j] = 255]
    /\ UNCHANGED <<map, file, reader, res, archive, staged, stream>>

\* index_from_bytes on the bytes as they are: "decoded" for the bytes the
\* encoder wrote, "decoded_damaged" for damaged ones
CodecDeserialize ==
    /\ codec.pc \in {"encoded", "damaged"}
    /\ codec' = [codec EXCEPT !.pc = IF codec.pc = "encoded" THEN "decoded"
                                     ELSE "decoded_damaged",
                              !.out = index_from_bytes(codec.bytes)]
    /\ UNCHANGED <<map, file, reader, res, archive, staged, stream>>

NextCodec ==
    \/ CodecSerialize
    \/ CodecDeserialize
    \/ \E b \in CodecBoundaries(codec.input), c \in 0..MaxCut : CodecTruncate(b - c)
    \/ CodecInflateCount
    \/ \E i \in 1..MaxSeqLen, v \in {<<1, 255>>, <<8, 200>>} :
          CodecInflateStrLen(i, v[1], v[2])
    \/ \E i \in 1..MaxSeqLen, j \in 1..2 : CodecBadUtf8(i, j)

SpecCodec == InitCodec /\ [][NextCodec]_vars

-----------------------------------------------------------------------------
(* A ByteStream on its own: it is made from some bytes and then read,      *)
(* written and sought in any order.                                        *)

\* the bytes a ByteStream is made from
StreamContents == UNION { [1..n -> {7, 9}] : n \in 0..MaxStreamLen }

\* the buffers handed to write, one longer than the longest stream included
WriteBuffers == UNION { [1..n -> {1}] : n \in 0..(MaxStreamLen + 1) }

\* the lengths of the buffers handed to read
ReadLengths == 0..(MaxStreamLen + 1)

\* SeekFrom values: targets inside the stream, before its start, past its
\* end, and the extremes of u64 and i64
SeekFroms ==
    { [from |-> "Start", offset |-> o] :
        o \in {U64Of(k) : k \in 0..(MaxStreamLen + 1)} \cup {U64_MAX} }
    \cup
    { [from |-> f, offset |-> o] :
        f \in {"End", "Current"},
        o \in {I64Of(k) : k \in (0 - (MaxStreamLen + 1))..(MaxStreamLen + 1)}
                \cup {I64_MIN, I64_MAX} }

Builds == {"debug", "release"}

InitStream ==
    /\ map = <<>>
    /\ file = <<>>
    /\ reader = NoReader
    /\ res = Result("from", <<>>, "Ok", <<>>)
    /\ archive = [level |-> 0, entries |-> <<>>, listing |-> <<>>, intact |-> FALSE]
    /\ staged = {}
    /\ codec = [pc |-> "idle", input |-> <<>>, bytes |-> <<>>,
                damage |-> "none", out |-> DeOk(<<>>, <<>>)]
    /\ \E value \in StreamContents : stream = ByteStreamFrom(value)

StreamRead(buf_len) ==
    /\ LET r == ByteStreamRead(stream, buf_len)
       IN  /\ stream' = r.stream
           /\ res' = Result("stream.read", <<>>, "Ok", r.data)
    /\ UNCHANGED <<map, file, reader, archive, staged, codec>>

StreamWrite(buf) ==
    /\ LET w == ByteStreamWrite(stream, buf)
       IN  /\ stream' = w.stream
           /\ res' = Result("stream.write", <<>>, "Ok", <<w.n>>)
    /\ UNCHANGED <<map, file, reader, archive, staged, codec>>

\* the call returns the new position; after a panic the stream is as before
StreamSeek(pos, build) ==
    /\ LET k == ByteStreamSeek(stream, pos, build)
       IN  /\ stream' = k.stream
           /\ res' = Result("stream.seek", <<>>, k.kind,
                            <<pos.from, pos.offset, k.stream.position>>)
    /\ UNCHANGED <<map, file, reader, archive, staged, codec>>

\* rewind, then read_to_end
StreamReadAll ==
    /\ LET r == ReadWhole(stream)
       IN  /\ stream' = r.stream
           /\ res' = Result("stream.read_all", <<>>, "Ok", r.data)
    /\ UNCHANGED <<map, file, reader, archive, staged, codec>>

NextStream ==
    \/ \E buf_len \in ReadLengths : StreamRead(buf_len)
    \/ \E buf \in WriteBuffers : StreamWrite(buf)
    \/ \E pos \in SeekFroms, build \in Builds : StreamSeek(pos, build)
    \/ StreamReadAll

SpecStream == InitStream /\ [][NextStream]_vars

-----------------------------------------------------------------------------
(* What the claims speak of, stated without the operators of the model.    *)

ForbiddenSet == Range(FORBIDDEN_CHARACTERS)

ContainsForbidden(path) == \E i \in DOMAIN path : path[i] \in ForbiddenSet

\* a orders strictly before b, byte by byte
LexLess(a, b) ==
    \E k \in 1..(Len(b)) :
        /\ \A j \in 1..(k - 1) : j <= Len(a) /\ a[j] = b[j]
        /\ k - 1 <= Len(a)
        /\ (k <= Len(a) => a[k] < b[k])

StrictlyAscending(paths) ==
    \A i \in 1..(Len(paths) - 1) : LexLess(paths[i], paths[i + 1])

Prefix(b, n) == SubSeq(b, 1, Min(n, Len(b)))

ArchivedPaths == {archive.entries[i][1] : i \in DOMAIN archive.entries}

ArchivedBytes(path) ==
    LET i == CHOOSE j \in DOMAIN archive.entries : archive.entries[j][1] = path
    IN  archive.entries[i][2]

\* the header fields of a file, bytes past its end read as zero
HeaderField(bytes, at) ==
    from_be_bytes([i \in 1..8 |-> IF at + i <= Len(bytes) THEN bytes[at + i] ELSE 0])

L_idx(bytes) == U64ToNat(HeaderField(bytes, 10))

L_data(bytes) == U64ToNat(HeaderField(bytes, 18))

\* the index block of a whole archive file, decoded
StoredIndex(bytes) == index_from_bytes(SubSeq(bytes, 27, 26 + L_idx(bytes)))

FormatErrors == {"HeaderMismatch", "EOF", "UTF-8 Error"}

PathOps == {"write_stream", "read_data", "take_data", "read_file"}

-----------------------------------------------------------------------------
(* The claims.                                                             *)

\* C1: round trip.  On a Reader opened on the file a flush wrote, whatever
\* the level, read_file of a staged path succeeds and returns exactly the
\* bytes staged at that path.
C1_RoundTrip ==
    (res.op = "read_file" /\ archive.intact /\ res.path \in ArchivedPaths)
        => (res.kind = "Ok" /\ res.data = ArchivedBytes(res.path))

C1_Witness ==
    /\ res.op = "read_file" /\ res.kind = "Ok" /\ archive.intact
    /\ archive.level = Ultra
    /\ Len(archive.entries) = 3
    /\ res.path = archive.entries[2][1]
    /\ res.data = <<66, 250>>
    /\ archive.entries[1][2] = <<>>

\* C2: index codec round trip.  Decoding the bytes IndexSerializer wrote for
\* a sequence of triples succeeds and yields the same sequence.
C2_CodecRoundTrip ==
    codec.pc = "decoded" => (codec.out.err = "" /\ codec.out.value = codec.input)

C2_Witness ==
    /\ codec.pc = "decoded"
    /\ codec.out.err = ""
    /\ Len(codec.input) = 2
    /\ codec.input[1] = << <<>>, U64_MAX, U64Of(0) >>
    /\ codec.input[2][1] = <<195, 169>>

\* C3: a file that starts with the fingerprint and is shorter than
\* 26 + L_idx + L_data is refused by ResourceLibraryReader::new with a
\* format error, and no Reader is returned.
C3_TruncationRejected ==
    ( /\ res.op = "new"
      /\ Prefix(res.data, 10) = HEADER_BYTES
      /\ Len(res.data) < 26 + L_idx(res.data) + L_data(res.data) )
        => (res.kind \in FormatErrors /\ ~reader.open)

\* C4: write_stream, read_data, take_data and read_file all refuse a path
\* holding a forbidden character with an invalid-path error, and leave the
\* stage, the index and the file cursor alone.
C4_ValidatedEverywhere ==
    [][ (res'.op \in PathOps /\ ContainsForbidden(res'.path))
          => (res'.kind = "InvalidPath" /\ map' = map /\ reader' = reader) ]_vars

\* C5: write_stream with a path holding a forbidden character returns an
\* error and leaves the stage as it was.
C5_InvalidStageUnchanged ==
    [][ (res'.op = "write_stream" /\ ContainsForbidden(res'.path))
          => (res'.kind = "InvalidPath" /\ map' = map) ]_vars

C5_Witness ==
    /\ res.op = "write_stream" /\ res.kind = "InvalidPath"
    /\ ContainsForbidden(res.path)
    /\ Len(map) = 2

\* C6: a file whose first 10 bytes are not the fingerprint, a file shorter
\* than 10 bytes included, is refused by ResourceLibraryReader::new with the
\* header error, which comes before the length fields and the index are read.
C6_FingerprintRejected ==
    (res.op = "new" /\ Prefix(res.data, 10) # HEADER_BYTES)
        => (res.kind = "HeaderMismatch" /\ ~reader.open)

C6_Witness ==
    /\ res.op = "new" /\ res.kind = "HeaderMismatch"
    /\ Len(res.data) > 26
    /\ Prefix(res.data, 9) = Prefix(HEADER_BYTES, 9)

\* C7: after a flush the index block of the file decodes to one entry per
\* staged path, in strictly ascending path order.
C7_Sorted ==
    (res.op = "write_to_file" /\ res.kind = "Ok" /\ archive.intact)
        => LET d     == StoredIndex(file)
               paths == [i \in DOMAIN d.value |-> d.value[i][1]]
           IN  /\ d.err = ""
               /\ Len(paths) = Cardinality(staged)
               /\ Range(paths) = staged
               /\ StrictlyAscending(paths)

C7_Witness ==
    /\ res.op = "write_to_file" /\ res.kind = "Ok" /\ archive.intact
    /\ staged = ValidPaths

\* C8: on a Reader opened on a flushed archive, read_file finds the entry of
\* every path of the index, reading exactly that entry's byte range, and
\* fails with not-found, the Reader untouched, for every other path.
C8_LookupExact ==
    [][ (res'.op = "read_file" /\ reader.open /\ archive.intact)
          => IF \E i \in DOMAIN reader.index : reader.index[i][1] = res'.path
             THEN LET i == CHOOSE j \in DOMAIN reader.index :
                               reader.index[j][1] = res'.path
                      e == reader.index[i]
                  IN  /\ res'.kind = "Ok"
                      /\ reader'.pos =
                           reader.data_pointer + U64ToNat(e[2]) + U64ToNat(e[3])
             ELSE res'.kind = "NotFound" /\ reader' = reader ]_vars

C8_Witness ==
    /\ res.op = "read_file" /\ res.kind = "Ok" /\ archive.intact
    /\ Len(reader.index) = 3
    /\ res.path = reader.index[2][1]

\* C9: the Reader opened on a flushed file lists the paths the Writer listed
\* when it flushed, in the same order.
C9_ListingAgrees ==
    (res.op = "reader.get_all_files" /\ archive.intact)
        => res.data = archive.listing

C9_Witness ==
    /\ res.op = "reader.get_all_files" /\ archive.intact
    /\ Len(res.data) = 3

\* C10: a flush leaves the stage with the same paths, and read_data returns
\* for each of them the bytes it returned before the flush.
C10_FlushKeepsStage ==
    [][ (res'.op = "write_to_file" /\ res'.kind = "Ok")
          => /\ MapKeys(map') = MapKeys(map)
             /\ \A i \in DOMAIN map :
                  /\ read_data(map', map[i].path).kind = "Ok"
                  /\ read_data(map', map[i].path).data
                       = read_data(map, map[i].path).data ]_vars

C10_Witness ==
    /\ res.op = "write_to_file" /\ res.kind = "Ok"
    /\ Len(map) = 3
    /\ \E i \in DOMAIN map : map[i].res.position = 2

\* the lengths of entries 1..k of a decoded index, summed
RECURSIVE SumLengths(_, _)
SumLengths(index, k) ==
    IF k = 0 THEN 0 ELSE SumLengths(index, k - 1) + U64ToNat(index[k][3])

\* C11: in the file a flush wrote, every index entry's offset is the sum of
\* the lengths of the entries before it (0 for the first), so the byte ranges
\* follow one another in path order without gap or overlap, and they end at
\* L_data, the number stored at file offset 18, which is where the file ends.
C11_DataLayout ==
    (res.op = "write_to_file" /\ res.kind = "Ok" /\ archive.intact)
        => LET d == StoredIndex(file)
           IN  /\ d.err = ""
               /\ Len(d.value) = Len(archive.entries)
               /\ \A i \in DOMAIN d.value :
                    /\ U64Fits(d.value[i][2]) /\ U64Fits(d.value[i][3])
                    /\ U64ToNat(d.value[i][2]) = SumLengths(d.value, i - 1)
               /\ SumLengths(d.value, Len(d.value)) = L_data(file)
               /\ Len(file) = 26 + L_idx(file) + L_data(file)

C11_Witness ==
    /\ res.op = "write_to_file" /\ res.kind = "Ok" /\ archive.intact
    /\ Len(archive.entries) = 3
    /\ archive.entries[1][2] = <<66, 250>>
    /\ archive.entries[2][2] = <<>>
    /\ StoredIndex(file).value[3][2] = U64Of(8)
    /\ L_data(file) = 12

\* C12: take_data of a staged path returns the bytes read_data returns for
\* it, removes that entry and leaves every other entry as it was; take_data
\* of a path that is not staged fails with not-found and leaves the stage as
\* it was; read_data never removes an entry.
C12_TakeRemovesReadKeeps ==
    [][ /\ (res'.op = "take_data")
             => IF \E i \in DOMAIN map : map[i].path = res'.path
                THEN /\ res'.kind = "Ok"
                     /\ res'.data = read_data(map, res'.path).data
                     /\ \A j \in DOMAIN map' : map'[j].path # res'.path
                     /\ Len(map') = Len(map) - 1
                     /\ \A i \in DOMAIN map :
                          map[i].path # res'.path
                             => \E j \in DOMAIN map' : map'[j] = map[i]
                ELSE res'.kind = "NotFound" /\ map' = map
        /\ (res'.op = "read_data") => MapKeys(map') = MapKeys(map) ]_vars

C12_Witness ==
    /\ res.op = "take_data" /\ res.kind = "Ok"
    /\ res.data = <<66, 250>>
    /\ Len(map) = 2
    /\ StrCmp(map[1].path, res.path) = "Less"
    /\ StrCmp(res.path, map[2].path) = "Less"
    /\ map[1].res.position = 1

\* C13: read_file of a path whose index entry reaches past the end of the
\* file fails with a format error: the short buffer is not handed to the
\* decompressor and no data is returned.
C13_ShortDataIsFormatError ==
    ( /\ res.op = "read_file"
      /\ reader.open
      /\ \E i \in DOMAIN reader.index :
           /\ reader.index[i][1] = res.path
           /\ U64Fits(reader.index[i][2]) /\ U64Fits(reader.index[i][3])
           /\ reader.data_pointer + U64ToNat(reader.index[i][2])
                + U64ToNat(reader.index[i][3]) > Len(file) )
        => res.kind \in FormatErrors

\* C14: the finalized index is encoded in exactly as many bytes as the
\* placeholder, L_idx, and lands at file offset 26: after a flush the bytes
\* [26, 26 + L_idx) are the encoding of an index that names the staged paths
\* and holds no u64::MAX, and every entry's byte range of the data block
\* still holds that entry's compressed bytes.
C14_BackpatchInPlace ==
    (res.op = "write_to_file" /\ res.kind = "Ok" /\ archive.intact)
        => LET n     == L_idx(file)
               paths == archive.listing
               placeholder ==
                   SerializeIndex([i \in DOMAIN paths |-> <<paths[i], U64_MAX, U64_MAX>>])
               d     == StoredIndex(file)
           IN  /\ n = Len(placeholder)
               /\ Len(file) >= 26 + n
               /\ d.err = ""
               /\ SerializeIndex(d.value) = SubSeq(file, 27, 26 + n)
               /\ Len(d.value) = Len(paths)
               /\ \A i \in DOMAIN d.value :
                    /\ d.value[i][1] = paths[i]
                    /\ d.value[i][2] # U64_MAX
                    /\ d.value[i][3] # U64_MAX
                    /\ U64Fits(d.value[i][2]) /\ U64Fits(d.value[i][3])
                    /\ 26 + n + U64ToNat(d.value[i][2]) + U64ToNat(d.value[i][3])
                         <= Len(file)
                    /\ SubSeq(file,
                              26 + n + U64ToNat(d.value[i][2]) + 1,
                              26 + n + U64ToNat(d.value[i][2]) + U64ToNat(d.value[i][3]))
                         = compress(archive.entries[i][2], archive.level)

C14_Witness ==
    /\ res.op = "write_to_file" /\ res.kind = "Ok" /\ archive.intact
    /\ archive.level = Normal
    /\ Len(archive.entries) = 2
    /\ archive.entries[2][2] = <<65>>
    /\ L_idx(file) = 59

\* C16: index_from_bytes answers with a deserialization error, and stays
\* within its input, when the input ends before a field does (an encoding
\* cut short, a string length or an element count larger than what
\* follows), and when the bytes of a string are not UTF-8.
C16_DefensiveDecode ==
    codec.pc = "decoded_damaged"
        => /\ codec.out.err = (IF codec.damage = "utf8" THEN "UTF-8 Error" ELSE "EOF")
           /\ codec.out.value = <<>>
           /\ Len(codec.out.rest) <= Len(codec.bytes)

C16_Witness ==
    /\ codec.pc = "decoded_damaged"
    /\ codec.damage = "utf8"
    /\ codec.out.err = "UTF-8 Error"
    /\ Len(codec.input) = 2
    /\ codec.input[2][1] = <<195, 169>>
    /\ codec.bytes[8 + 8 + Len(codec.input[1][1]) + 16 + 8 + 2] = 255

\* C17: whatever reads, writes and seeks a ByteStream over n bytes has gone
\* through, seeks before its start or past its end included, its position is
\* between 0 and n and it still holds n bytes; a read returns, and a write
\* overwrites, only the bytes between the old and the new position; and a
\* rewind followed by a read to the end returns all n bytes.
C17_CursorInBounds ==
    [][ /\ stream.position >= 0 /\ stream.position <= Len(stream.bytes)
        /\ stream'.position >= 0 /\ stream'.position <= Len(stream'.bytes)
        /\ Len(stream'.bytes) = Len(stream.bytes)
        /\ (res'.op = "stream.read")
             => /\ stream.position <= stream'.position
                /\ res'.data = [i \in 1..(stream'.position - stream.position) |->
                                  stream.bytes[stream.position + i]]
                /\ stream'.bytes = stream.bytes
        /\ (res'.op = "stream.write")
             => /\ stream.position <= stream'.position
                /\ res'.data = <<stream'.position - stream.position>>
                /\ \A i \in DOMAIN stream.bytes :
                     (i <= stream.position \/ i > stream'.position)
                        => stream'.bytes[i] = stream.bytes[i]
        /\ (res'.op = "stream.seek") => stream'.bytes = stream.bytes
        /\ (res'.op = "stream.read_all")
             => /\ res'.data = stream.bytes
                /\ stream'.bytes = stream.bytes
                /\ stream'.position = Len(stream.bytes) ]_vars

C17_Witness ==
    /\ res.op = "stream.seek" /\ res.kind = "Ok"
    /\ res.data[1] = "End"
    /\ res.data[2] = I64Of(0 - 3)
    /\ Len(stream.bytes) = 2
    /\ stream.bytes[2] = 1
    /\ stream.position = 2

=============================================================================
